---- MODULE Spec2Model ----
(***************************************************************************)
(* Count-Min Sketch of src/CountMinSketch.py: the constructor              *)
(* CountMinSketch.__init__, update_element and estimate_element_count,     *)
(* with the int32 counter table and the per-row hash functions.            *)
(***************************************************************************)
EXTENDS Integers, Sequences, FiniteSets, TLC

(* ------------------------------------------------------------------ *)
(* Bounds of the model                                                *)
(* ------------------------------------------------------------------ *)

\* Number of update_element calls explored on one sketch.
MaxUpdates == 2

\* Elements passed to the sketch: Python ints, whose hash() is known.
\* hash(-1) is -2, hash(1) is 1.
Elements == {-1, 1}

(* ------------------------------------------------------------------ *)
(* Program constants                                                  *)
(* ------------------------------------------------------------------ *)

\* BIG_PRIME of the source is 10089886811898868001, which no TLC integer
\* holds.  The model keeps the shape ((a*x + b) % BIG_PRIME) % k of the hash
\* family and the range [0, BIG_PRIME-2] of the draws with a small prime, so
\* that the reduction modulo the prime really happens.
BIG_PRIME == 3

\* Largest value of a numpy int32 counter (dtype='int32').
MaxInt32 == 2147483647

\* Smallest value of a numpy int32 counter.
MinInt32 == (-MaxInt32) - 1

\* math.e as the fraction E_NUM / E_DEN.
E_NUM == 27183

E_DEN == 10000

\* e^1 .. e^4 times 1000, for math.log.
ExpMilli == <<2718, 7389, 20086, 54598>>

\* Increments passed to update_element: all inside the int32 range, where
\* numpy's in-place addition wraps silently.
Increments == {-MaxInt32, 1, 3, MaxInt32}

(* ------------------------------------------------------------------ *)
(* Python values                                                      *)
(* ------------------------------------------------------------------ *)

\* None is the empty tuple, a supplied argument v is <<v>>; a float argument
\* is the fraction <<num, den>> with den > 0.
None == <<>>

EpsilonArgs == {None, <<9, 10>>, <<-3, 1>>, <<0, 1>>}

DeltaArgs == {None, <<1, 2>>, <<1, 1>>, <<3, 1>>, <<0, 1>>, <<-1, 1>>}

KArgs == {None, <<0>>, <<1>>, <<2>>}

NArgs == {None, <<-1>>, <<0>>, <<1>>, <<2>>}

\* sys.maxsize (2^63 - 1) is above every int32 and above every TLC integer:
\* the running minimum is a record that is either sys.maxsize or an int32.
sys_maxsize == [maxsize |-> TRUE, val |-> 0]

\* CPython's hash() of an int of small magnitude: the int itself, but -2 for -1.
PyHash(x) == IF x = -1 THEN -2 ELSE x

\* abs()
PyAbs(v) == IF v < 0 THEN -v ELSE v

\* ceil(p / q) for q > 0.
CeilDiv(p, q) == -((-p) \div q)

\* int(ceil(e / epsilon)), epsilon = <<num, den>>, num # 0.
ceil_e_over(epsilon) ==
  IF epsilon[1] > 0
    THEN CeilDiv(E_NUM * epsilon[2], E_DEN * epsilon[1])
    ELSE CeilDiv(-(E_NUM * epsilon[2]), E_DEN * (-epsilon[1]))

\* int(ceil(log(1./delta))), delta = <<p, q>> with p > 0: the least integer m
\* with e^m >= q/p.
ceil_log_inv(delta) ==
  LET p == delta[1]
      q == delta[2]
      \* e^m >= q/p
      Reaches(m) ==
        IF m = 0 THEN p >= q
        ELSE IF m > 0 THEN ExpMilli[m] * p >= 1000 * q
        ELSE 1000 * p >= ExpMilli[-m] * q
      Range == (-Len(ExpMilli)) .. Len(ExpMilli)
  IN CHOOSE m \in Range :
       /\ Reaches(m)
       /\ \A m2 \in Range : Reaches(m2) => m <= m2

\* Add32 with the increment subtracted instead of added.
Add32_Sub(v, c) ==
  IF c > 0 /\ v < MinInt32 + c THEN (v - MinInt32) + ((-c) - MinInt32)
  ELSE IF c < 0 /\ v > MaxInt32 + c THEN (v + MinInt32) + ((-c) + MinInt32)
  ELSE v - c

\* Add32 with the counter assigned instead of incremented.
Add32_Assign(v, c) == c

\* numpy int32 addition: the sum modulo 2^32, in [-2^31, 2^31 - 1], computed
\* without leaving the int32 range.
Add32(v, c) ==
  IF c > 0 /\ v > MaxInt32 - c THEN (v + MinInt32) + (c + MinInt32)
  ELSE IF c < 0 /\ v < MinInt32 - c THEN (v - MinInt32) + (c - MinInt32)
  ELSE v + c

\* PyMin taking the larger value.
PyMin_Max(a, minVal) ==
  IF minVal.maxsize \/ a >= minVal.val THEN [maxsize |-> FALSE, val |-> a] ELSE minVal

\* min(a, minVal) of estimate_element_count, a an int32.
PyMin(a, minVal) ==
  IF minVal.maxsize \/ a <= minVal.val THEN [maxsize |-> FALSE, val |-> a] ELSE minVal

(* ------------------------------------------------------------------ *)
(* State                                                              *)
(* ------------------------------------------------------------------ *)

VARIABLES
  pc,                     \* "new": not constructed; "ok": constructed; "raised": __init__ raised
  supplied,               \* the arguments of __init__ that were not None
  attrs,                  \* the attributes that exist on the object
  total,                  \* self.total
  k,                      \* self.k
  n,                      \* self.n
  table_counts,           \* self.table_counts: row 0..n-1 -> column 0..k-1 -> int32
  random_hash_functions,  \* self.random_hash_functions: row i is entry i+1, the pair <<a, b>>
  last,                   \* the last call and its outcome
  stream                  \* history: the update_element calls made, as <<x, increment_val>>

vars == <<pc, supplied, attrs, total, k, n, table_counts, random_hash_functions, last, stream>>

NoCall == [op |-> "none", x |-> 0, c |-> 0, raised |-> "", col |-> 0, minVal |-> 0]

Init ==
  /\ pc = "new"
  /\ supplied = {}
  /\ attrs = {}
  /\ total = 0
  /\ k = 0
  /\ n = 0
  /\ table_counts = <<>>
  /\ random_hash_functions = <<>>
  /\ last = NoCall
  /\ stream = <<>>

(* ------------------------------------------------------------------ *)
(* __init__                                                           *)
(* ------------------------------------------------------------------ *)

\* random_param_generator(): random.randrange(0, BIG_PRIME-1).
random_param_generator == 0 .. (BIG_PRIME - 2)

\* np.zeros((n, k), dtype='int32')
np_zeros(nn, kk) == [i \in 0 .. (nn - 1) |-> [j \in 0 .. (kk - 1) |-> 0]]

\* Parameters falling back to a 1 x 1 table where the source raises Exception.
Parameters_NoRaise(epsilon, delta, k_arg, n_arg) ==
  IF delta # None /\ epsilon # None /\ epsilon[1] # 0 /\ delta[1] > 0 THEN
    [raised |-> "", attrs |-> {"total", "k", "n"},
     k |-> ceil_e_over(epsilon), n |-> ceil_log_inv(delta)]
  ELSE IF k_arg # None /\ n_arg # None THEN
    [raised |-> "", attrs |-> {"total", "k", "n"}, k |-> k_arg[1], n |-> n_arg[1]]
  ELSE
    [raised |-> "", attrs |-> {"total", "k", "n"}, k |-> 1, n |-> 1]

\* Lines 29-37: the parameters chosen, or the exception raised.
Parameters(epsilon, delta, k_arg, n_arg) ==
  IF delta # None /\ epsilon # None THEN
    IF epsilon[1] = 0 THEN
      [raised |-> "ZeroDivisionError", attrs |-> {"total"}, k |-> 0, n |-> 0]
    ELSE IF delta[1] = 0 THEN
      [raised |-> "ZeroDivisionError", attrs |-> {"total", "k"},
       k |-> ceil_e_over(epsilon), n |-> 0]
    ELSE IF delta[1] < 0 THEN
      [raised |-> "ValueError", attrs |-> {"total", "k"},
       k |-> ceil_e_over(epsilon), n |-> 0]
    ELSE
      [raised |-> "", attrs |-> {"total", "k", "n"},
       k |-> ceil_e_over(epsilon), n |-> ceil_log_inv(delta)]
  ELSE IF k_arg # None /\ n_arg # None THEN
    [raised |-> "", attrs |-> {"total", "k", "n"}, k |-> k_arg[1], n |-> n_arg[1]]
  ELSE
    [raised |-> "Exception", attrs |-> {"total"}, k |-> 0, n |-> 0]

SuppliedOf(epsilon, delta, k_arg, n_arg) ==
  {s \in {"epsilon", "delta", "k", "n"} :
     \/ s = "epsilon" /\ epsilon # None
     \/ s = "delta" /\ delta # None
     \/ s = "k" /\ k_arg # None
     \/ s = "n" /\ n_arg # None}

\* CountMinSketch(epsilon, delta, k, n)
CountMinSketch(epsilon, delta, k_arg, n_arg) ==
  LET p == Parameters(epsilon, delta, k_arg, n_arg) IN
  /\ pc = "new"
  /\ supplied' = SuppliedOf(epsilon, delta, k_arg, n_arg)
  /\ total' = 0
  /\ k' = p.k
  /\ n' = p.n
  /\ UNCHANGED stream
  /\ IF p.raised # "" THEN
       /\ pc' = "raised"
       /\ attrs' = p.attrs
       /\ last' = [NoCall EXCEPT !.op = "__init__", !.raised = p.raised]
       /\ UNCHANGED <<table_counts, random_hash_functions>>
     ELSE IF p.n < 0 \/ p.k < 0 THEN
       \* np.zeros: negative dimensions are not allowed
       /\ pc' = "raised"
       /\ attrs' = p.attrs
       /\ last' = [NoCall EXCEPT !.op = "__init__", !.raised = "ValueError"]
       /\ UNCHANGED <<table_counts, random_hash_functions>>
     ELSE
       /\ pc' = "ok"
       /\ attrs' = p.attrs \cup {"table_counts", "random_hash_functions"}
       /\ table_counts' = np_zeros(p.n, p.k)
       /\ \E fns \in [1 .. p.n -> random_param_generator \X random_param_generator] :
            random_hash_functions' = fns
       /\ last' = [NoCall EXCEPT !.op = "__init__"]

(* ------------------------------------------------------------------ *)
(* The hash family                                                    *)
(* ------------------------------------------------------------------ *)

\* The lambda of __hash_data with a = ab[1], b = ab[2]; kk is self.k, kk > 0.
random_hash(ab, kk, x) == ((ab[1] * x + ab[2]) % BIG_PRIME) % kk

(* ------------------------------------------------------------------ *)
(* update_element                                                     *)
(* ------------------------------------------------------------------ *)

\* update_rows stopping one row early.
RECURSIVE update_rows_SkipLast(_, _, _, _, _, _)
update_rows_SkipLast(table, fns, kk, i, x, c) ==
  IF i >= Len(fns) - 1 THEN [raised |-> "", table |-> table]
  ELSE IF kk = 0 THEN [raised |-> "ZeroDivisionError", table |-> table]
  ELSE LET col == random_hash(fns[i + 1], kk, PyAbs(PyHash(x)))
       IN update_rows_SkipLast([table EXCEPT ![i][col] = Add32(@, c)], fns, kk, i + 1, x, c)

\* The loop of update_element from row i on: the table it leaves, and the
\* exception that ended it, if any (x % 0 raises ZeroDivisionError).
RECURSIVE update_rows(_, _, _, _, _, _)
update_rows(table, fns, kk, i, x, c) ==
  IF i >= Len(fns) THEN [raised |-> "", table |-> table]
  ELSE IF kk = 0 THEN [raised |-> "ZeroDivisionError", table |-> table]
  ELSE LET col == random_hash(fns[i + 1], kk, PyAbs(PyHash(x)))
       IN update_rows([table EXCEPT ![i][col] = Add32(@, c)], fns, kk, i + 1, x, c)

update_element(x, increment_val) ==
  LET r == update_rows(table_counts, random_hash_functions, k, 0, x, increment_val) IN
  /\ pc = "ok"
  /\ Len(stream) < MaxUpdates
  /\ table_counts' = r.table
  /\ stream' = Append(stream, <<x, increment_val>>)
  /\ last' = [NoCall EXCEPT !.op = "update", !.x = x, !.c = increment_val,
                            !.raised = r.raised]
  /\ UNCHANGED <<pc, supplied, attrs, total, k, n, random_hash_functions>>

(* ------------------------------------------------------------------ *)
(* estimate_element_count                                             *)
(* ------------------------------------------------------------------ *)

\* The loop of estimate_element_count from row i on, with the running col
\* (None before the first row) and minVal.
RECURSIVE estimate_rows(_, _, _, _, _, _, _)
estimate_rows(table, fns, kk, i, x, col, minVal) ==
  IF i >= Len(fns) THEN
    IF col = None THEN [raised |-> "UnboundLocalError", col |-> col, minVal |-> minVal]
    ELSE [raised |-> "", col |-> col, minVal |-> minVal]
  ELSE IF kk = 0 THEN [raised |-> "ZeroDivisionError", col |-> col, minVal |-> minVal]
  ELSE LET c2 == random_hash(fns[i + 1], kk, PyAbs(PyHash(x)))
       IN estimate_rows(table, fns, kk, i + 1, x, <<c2>>, PyMin(table[i][c2], minVal))

\* The outcome of estimate_element_count(x) on a sketch.
Estimate(table, fns, kk, x) == estimate_rows(table, fns, kk, 0, x, None, sys_maxsize)

estimate_element_count(x) ==
  LET r == Estimate(table_counts, random_hash_functions, k, x) IN
  /\ pc = "ok"
  /\ last' = IF r.raised # ""
               THEN [NoCall EXCEPT !.op = "estimate", !.x = x, !.raised = r.raised]
               ELSE [NoCall EXCEPT !.op = "estimate", !.x = x,
                                   !.col = r.col[1], !.minVal = r.minVal.val]
  /\ UNCHANGED <<pc, supplied, attrs, total, k, n, table_counts, random_hash_functions, stream>>

(* ------------------------------------------------------------------ *)
(* Specification                                                      *)
(* ------------------------------------------------------------------ *)

Construct ==
  \E epsilon \in EpsilonArgs, delta \in DeltaArgs, k_arg \in KArgs, n_arg \in NArgs :
    CountMinSketch(epsilon, delta, k_arg, n_arg)

Update == \E x \in Elements, c \in Increments : update_element(x, c)

Query == \E x \in Elements : estimate_element_count(x)

Next == Construct \/ Update \/ Query

Spec == Init /\ [][Next]_vars

(* ------------------------------------------------------------------ *)
(* Operators the properties are stated with                           *)
(* ------------------------------------------------------------------ *)

Rows == 0 .. (n - 1)

\* The column of element x in row i, as update_element derives it (k > 0).
ColumnOf(i, x) == random_hash(random_hash_functions[i + 1], k, PyAbs(PyHash(x)))

\* The estimate the sketch with counter table `table` gives for x (k, n >= 1).
EstimateIn(table, x) == Estimate(table, random_hash_functions, k, x).minVal.val

\* The least element of a non-empty set of integers.
MinOf(S) == CHOOSE m \in S : \A m2 \in S : m <= m2

\* a + c kept inside [-MaxInt32, MaxInt32].
SatAdd(a, c) ==
  IF c > 0 /\ a > MaxInt32 - c THEN MaxInt32
  ELSE IF c < 0 /\ a < (-MaxInt32) - c THEN -MaxInt32
  ELSE a + c

\* All increments of the history are non-negative.
NonNegativeStream == \A j \in 1 .. Len(stream) : stream[j][2] >= 0

\* The sum of the first j increments applied to x, saturating at MaxInt32.
RECURSIVE TrueCountUpTo(_, _)
TrueCountUpTo(x, j) ==
  IF j = 0 THEN 0
  ELSE IF stream[j][1] = x THEN SatAdd(TrueCountUpTo(x, j - 1), stream[j][2])
  ELSE TrueCountUpTo(x, j - 1)

TrueCount(x) == TrueCountUpTo(x, Len(stream))

\* The sum of the first j increments, saturating at MaxInt32.
RECURSIVE WeightUpTo(_)
WeightUpTo(j) == IF j = 0 THEN 0 ELSE SatAdd(WeightUpTo(j - 1), stream[j][2])

\* The increments of a non-negative history sum to at most 2^31 - 1.
RECURSIVE WeightFitsUpTo(_)
WeightFitsUpTo(j) ==
  \/ j = 0
  \/ /\ WeightFitsUpTo(j - 1)
     /\ stream[j][2] <= MaxInt32 - WeightUpTo(j - 1)

WeightFits == WeightFitsUpTo(Len(stream))

\* This step is a call update_element(last'.x, last'.c) that did not raise.
UpdateStep ==
  /\ pc = "ok"
  /\ Len(stream') = Len(stream) + 1
  /\ last'.op = "update"
  /\ last'.raised = ""

\* Adding c leaves the counter v inside the int32 range.
InRange32(v, c) ==
  /\ c > 0 => v <= MaxInt32 - c
  /\ c < 0 => v >= MinInt32 - c

\* update_element(x, c) on the current sketch wraps none of the counters it touches.
NoWrap(x, c) == \A i \in Rows : InRange32(table_counts[i][ColumnOf(i, x)], c)

(* ------------------------------------------------------------------ *)
(* C1                                                                 *)
(* ------------------------------------------------------------------ *)

\* C1 as stated: on a sketch with k >= 1 and n >= 1, after any sequence of
\* updates with non-negative increments, the estimate of every element is at
\* least its true count.  (The true count is compared saturated at 2^31 - 1,
\* which is never above the real sum.)
C1_NoUnderestimate ==
  (pc = "ok" /\ k >= 1 /\ n >= 1 /\ NonNegativeStream)
    => \A x \in Elements : EstimateIn(table_counts, x) >= TrueCount(x)

\* C1 amended: on a sketch with k >= 1 and n >= 1, after any sequence of
\* updates whose increments are non-negative and sum to at most 2^31 - 1, the
\* estimate of every element is at least its true count.
C1_NoUnderestimateInRange ==
  (pc = "ok" /\ k >= 1 /\ n >= 1 /\ NonNegativeStream /\ WeightFits)
    => \A x \in Elements : EstimateIn(table_counts, x) >= TrueCount(x)

\* Two updates of different elements collide, and the estimate of one of
\* them is above its true count.
C1_Witness ==
  /\ pc = "ok" /\ k >= 1 /\ n = 2
  /\ Len(stream) = 2 /\ NonNegativeStream /\ WeightFits
  /\ \E x \in Elements : TrueCount(x) > 0 /\ EstimateIn(table_counts, x) > TrueCount(x)

(* ------------------------------------------------------------------ *)
(* C2                                                                 *)
(* ------------------------------------------------------------------ *)

\* C2: the estimate estimate_element_count(x) returns is the minimum over the
\* rows i of table_counts[i, h_i(abs(hash(x)))], the columns being those
\* update_element uses.
C2_EstimateIsMinimum ==
  (last.op = "estimate" /\ last.raised = "")
    => /\ n >= 1
       /\ k >= 1
       /\ last.minVal = MinOf({table_counts[i][ColumnOf(i, last.x)] : i \in Rows})
       /\ \E i \in Rows : last.minVal = table_counts[i][ColumnOf(i, last.x)]

\* An estimate was returned on a sketch whose two rows hold different
\* counters for the element.
C2_Witness ==
  /\ last.op = "estimate" /\ last.raised = "" /\ n = 2
  /\ table_counts[0][ColumnOf(0, last.x)] > table_counts[1][ColumnOf(1, last.x)]
  /\ table_counts[1][ColumnOf(1, last.x)] > 0

(* ------------------------------------------------------------------ *)
(* C3                                                                 *)
(* ------------------------------------------------------------------ *)

\* Neither both epsilon and delta nor both k and n were supplied.
Insufficient ==
  /\ ~ ({"epsilon", "delta"} \subseteq supplied)
  /\ ~ ({"k", "n"} \subseteq supplied)

\* C3: a construction with neither pair fully supplied raises, and the object
\* gets no counter table and no hash functions.
C3_ConfigurationFailure ==
  (pc # "new" /\ Insufficient)
    => /\ pc = "raised"
       /\ last.op = "__init__"
       /\ last.raised = "Exception"
       /\ "table_counts" \notin attrs
       /\ "random_hash_functions" \notin attrs
       /\ table_counts = <<>>
       /\ random_hash_functions = <<>>

\* The constructor was called with one argument of each pair.
C3_Witness ==
  /\ pc = "raised"
  /\ supplied = {"epsilon", "k"}
  /\ last.raised = "Exception"

(* ------------------------------------------------------------------ *)
(* C4                                                                 *)
(* ------------------------------------------------------------------ *)

\* Every counter of the table is zero.
AllZero ==
  /\ DOMAIN table_counts = Rows
  /\ \A i \in Rows :
       /\ DOMAIN table_counts[i] = 0 .. (k - 1)
       /\ \A j \in 0 .. (k - 1) : table_counts[i][j] = 0

\* C4: on a constructed sketch to which no update was applied every counter
\* is zero, and estimate_element_count(x) returns the estimate 0.
C4_ZeroBaseline ==
  (pc = "ok" /\ Len(stream) = 0)
    => /\ AllZero
       /\ last.op = "estimate" => (last.raised = "" /\ last.minVal = 0)

\* What does hold on every fresh sketch: the counters are all zero, and every
\* estimate that is returned is 0.  Only the calls that raise, on the sketches
\* with k = 0 or n = 0, depart from C4.
ZeroBaselineWhenReturned ==
  (pc = "ok" /\ Len(stream) = 0)
    => /\ AllZero
       /\ (last.op = "estimate" /\ last.raised = "") => last.minVal = 0

(* ------------------------------------------------------------------ *)
(* C5                                                                 *)
(* ------------------------------------------------------------------ *)

\* C5 as stated: update_element(x, c) with c > 0 never decreases the estimate
\* of x, and with c < 0 never increases it.
C5_Monotonic ==
  [][(UpdateStep /\ k >= 1 /\ n >= 1)
       => /\ last'.c > 0 =>
               EstimateIn(table_counts', last'.x) >= EstimateIn(table_counts, last'.x)
          /\ last'.c < 0 =>
               EstimateIn(table_counts', last'.x) <= EstimateIn(table_counts, last'.x)]_vars

\* C5 amended: the same, for the calls in which none of the counters touched
\* leaves the int32 range [-2^31, 2^31 - 1].
C5_MonotonicInRange ==
  [][(UpdateStep /\ k >= 1 /\ n >= 1 /\ NoWrap(last'.x, last'.c))
       => /\ last'.c > 0 =>
               EstimateIn(table_counts', last'.x) >= EstimateIn(table_counts, last'.x)
          /\ last'.c < 0 =>
               EstimateIn(table_counts', last'.x) <= EstimateIn(table_counts, last'.x)]_vars

\* A second update of the same element with a positive increment has acted,
\* no counter wrapped, and the estimate is the sum of both increments.
C5_Witness ==
  /\ pc = "ok" /\ k >= 1 /\ n = 2
  /\ Len(stream) = 2
  /\ last.op = "update" /\ last.raised = "" /\ last.c = 3
  /\ stream[1] = <<last.x, 1>>
  /\ EstimateIn(table_counts, last.x) = 4

(* ------------------------------------------------------------------ *)
(* C6                                                                 *)
(* ------------------------------------------------------------------ *)

\* update_element(x, c) applied to the table `table` of the current sketch.
UpdateOf(table, x, c) == update_rows(table, random_hash_functions, k, 0, x, c)

\* Three successive calls update_element(x, 1) from the table `table`.
ThreeUnitUpdates(table, x) ==
  LET r1 == UpdateOf(table, x, 1)
      r2 == UpdateOf(r1.table, x, 1)
  IN UpdateOf(r2.table, x, 1)

\* C6: from every sketch state, update_element(x, 3) and three calls
\* update_element(x, 1) leave the same counter table (and the same outcome),
\* hence the same estimate of every element.
C6_Additivity ==
  pc = "ok" =>
    \A x \in Elements :
      /\ UpdateOf(table_counts, x, 3) = ThreeUnitUpdates(table_counts, x)
      /\ (k >= 1 /\ n >= 1) =>
           \A y \in Elements :
             EstimateIn(UpdateOf(table_counts, x, 3).table, y)
               = EstimateIn(ThreeUnitUpdates(table_counts, x).table, y)

\* update_element(x, 3) has acted on a fresh sketch of two rows, and the table
\* is the one three unit updates give.
C6_Witness ==
  /\ pc = "ok" /\ k >= 1 /\ n = 2
  /\ Len(stream) = 1 /\ stream[1][2] = 3
  /\ last.op = "update" /\ last.raised = ""
  /\ table_counts = ThreeUnitUpdates(np_zeros(n, k), last.x).table
  /\ EstimateIn(table_counts, last.x) = 3

(* ------------------------------------------------------------------ *)
(* C7                                                                 *)
(* ------------------------------------------------------------------ *)

\* C7: after a successful construction, k >= 1 and n >= 1 at all times.
C7_PositiveDimensions == pc = "ok" => (k >= 1 /\ n >= 1)

(* ------------------------------------------------------------------ *)
(* C8                                                                 *)
(* ------------------------------------------------------------------ *)

\* C8: on a constructed sketch no call of update_element or
\* estimate_element_count raises.
C8_NoRuntimeError ==
  (pc = "ok" /\ last.op \in {"update", "estimate"}) => last.raised = ""

(* ------------------------------------------------------------------ *)
(* C9                                                                 *)
(* ------------------------------------------------------------------ *)

\* C9: total is the running sum of the increments applied (stated for the
\* sketches with k, n >= 1 and the non-negative histories whose sum fits).
C9_RunningTotal ==
  (pc = "ok" /\ k >= 1 /\ n >= 1 /\ NonNegativeStream /\ WeightFits)
    => total = WeightUpTo(Len(stream))

(* ------------------------------------------------------------------ *)
(* C10                                                                *)
(* ------------------------------------------------------------------ *)

\* The step changed, in every row, the counter of x by c (int32 addition) and
\* no other counter, and left k, n and the hash functions alone.
FrameOf(x, c) ==
  /\ DOMAIN table_counts' = DOMAIN table_counts
  /\ \A i \in Rows :
       /\ DOMAIN table_counts'[i] = DOMAIN table_counts[i]
       /\ k >= 1
       /\ \A j \in 0 .. (k - 1) :
            table_counts'[i][j] =
              IF j = ColumnOf(i, x) THEN Add32(table_counts[i][j], c)
              ELSE table_counts[i][j]
  /\ UNCHANGED <<k, n, random_hash_functions>>

\* C10: every call update_element(x, c) adds c to exactly one counter of each
\* of the n rows, the one in column h_i(abs(hash(x))), and changes nothing else.
C10_UpdateFrame ==
  [][(pc = "ok" /\ Len(stream') = Len(stream) + 1 /\ last'.op = "update")
       => /\ last'.raised = ""
          /\ FrameOf(last'.x, last'.c)]_vars

\* The calls that complete (every call on a sketch with k >= 1) do have this
\* effect: only the call that raises on a sketch with k = 0 departs from C10.
UpdateFrameWhenCompleted ==
  [][UpdateStep => FrameOf(last'.x, last'.c)]_vars

====
